---- MODULE Spec2Model ----
(***************************************************************************)
(* Trade lifecycle engine of Enhanced5MinBreakoutStrategy                  *)
(* (src/breakout_strategy.py).                                             *)
(*                                                                         *)
(* Threads: the main thread runs run_strategy -> capture_first_candle ->   *)
(* monitor_breakouts and, after a KeyboardInterrupt, cleanup; enter_trade  *)
(* starts one daemon thread running monitor_trade per trade entered.       *)
(* A thread may be descheduled wherever it makes a blocking call (a quote, *)
(* an order, a sleep, a log write), and between the load of a shared field *)
(* and the store that depends on it; every action below is the code        *)
(* between two such points.                                                *)
(*                                                                         *)
(* Prices are integers (all even, so the trailing-stop arithmetic with a   *)
(* trailing percentage of 50 is exact); time is in whole minutes.          *)
(***************************************************************************)
EXTENDS Integers, Sequences, FiniteSets, TLC

VARIABLES
    session,              \* which of Sessions this run is
    trading_active,       \* self.trading_active
    first_candle_captured,\* self.first_candle_captured
    breakout_levels,      \* self.breakout_levels: index -> level record, or NoLevel
    active_trades,        \* self.active_trades: index -> trade id, or NoTrade
    trades,               \* every TradeRecord created so far, by trade id
    daily_pnl,            \* self.daily_pnl
    realized_pnl,         \* history: the sum of the pnl of every settlement
    daily_trades_count,   \* self.daily_trades_count
    now,                  \* the wall clock, in minutes
    th,                   \* the locals of every thread (0 is the main thread)
    mb_i,                 \* position of the for loop of monitor_breakouts
    cl_keys,              \* the list(self.active_trades.keys()) cleanup iterates
    b5,                   \* Breakout5MinStrategy: the locals of monitor_option_high_breakout
    ef,                   \* one call of validate_entry_conditions: the
                          \* entry_filters section and what the two filters saw
    gh                    \* one call of get_historical_data: its locals and
                          \* what self.fyers.history answers, attempt by attempt

\* the state of Enhanced5MinBreakoutStrategy
strategy_vars ==
    <<session, realized_pnl, trading_active, first_candle_captured, breakout_levels,
      active_trades, trades, daily_pnl, daily_trades_count, now, th, mb_i, cl_keys>>

vars == <<strategy_vars, b5, ef, gh>>

----------------------------------------------------------------------------
(* Bounds of the model *)

\* minutes the clock keeps running after the maximum holding period of the
\* session's configuration has passed since the start
Slack == 0

----------------------------------------------------------------------------
(* The inputs of a session: the configuration (config.yaml, read through   *)
(* self.config) and what the quote feed can answer at each place it is     *)
(* asked. Optional[float] None is -1.                                      *)

None    == -1

\* a quote whose 'lp' field is not a number: get_option_price returns it as it
\* is, and the first comparison with it raises TypeError
Malformed == -2

\* a string field of config.yaml that was left as shipped, "YOUR_..."
Placeholder == -3

\* one underlying, a two-rung ladder and a trailing stop, one trade a day
LadderSession ==
    [ config |->
        [ symbols                    |-> <<"banknifty">>,
          quantity                   |-> 2,
          breakout_buffer            |-> 2,
          stop_loss_points           |-> 8,
          target_points              |-> 8,
          max_holding_period_minutes |-> 3,
          max_daily_trades           |-> 1,
          max_daily_loss             |-> -16,
          partial_exits_enabled      |-> TRUE,
          exits                      |->
              << [time_minutes |-> 1, min_profit_percentage |-> 3, exit_percentage |-> 50],
                 [time_minutes |-> 2, min_profit_percentage |-> 3, exit_percentage |-> 50] >>,
          trailing_enabled           |-> TRUE,
          activation_percentage      |-> 50,
          trailing_percentage        |-> 50,
          use_atr_stop_loss          |-> FALSE,
          atr_periods                |-> 2,
          atr_multiplier             |-> 2 ],
      close_prices    |-> {None, 100},
      breakout_quotes |-> {None, 100, 104},
      trade_quotes    |-> {None, 96, 104, 108, 112},
      cleanup_quotes  |-> {None, 108} ]

\* two trades a day, neither partial exits nor trailing
PlainSession ==
    [ LadderSession EXCEPT
        !.config.max_daily_trades = 2,
        !.config.max_holding_period_minutes = 1,
        !.config.partial_exits_enabled = FALSE,
        !.config.trailing_enabled = FALSE ]

\* two trades a day, one rung that is due from the entry on, no trailing, on
\* a feed that stays between the stop and the target
PartialSession ==
    [ LadderSession EXCEPT
        !.config.max_daily_trades = 2,
        !.config.max_holding_period_minutes = 1,
        !.config.exits =
            << [time_minutes |-> 0, min_profit_percentage |-> 3, exit_percentage |-> 50] >>,
        !.config.trailing_enabled = FALSE,
        !.trade_quotes = {None, 108} ]

\* two trades a day, a trailing stop and no partial exits, on a feed that
\* stays between the stop and the target
TrailingSession ==
    [ LadderSession EXCEPT
        !.config.max_daily_trades = 2,
        !.config.max_holding_period_minutes = 1,
        !.config.partial_exits_enabled = FALSE,
        !.trade_quotes = {None, 108, 110} ]

\* two underlyings and two trades a day, neither partial exits nor trailing,
\* positions closed, at the stop, on the first tick that has a quote
TwoIndexSession ==
    [ PlainSession EXCEPT
        !.config.symbols = <<"banknifty", "nifty">>,
        !.config.max_holding_period_minutes = 0,
        !.breakout_quotes = {None, 104},
        !.trade_quotes = {None, 96},
        !.cleanup_quotes = {108} ]

\* a config.yaml without trading.risk_management.stop_loss_points (None is the
\* absent key), two trades a day, neither partial exits nor trailing
MissingRiskSession ==
    [ PlainSession EXCEPT
        !.config.stop_loss_points = None,
        !.breakout_quotes = {None, 104},
        !.cleanup_quotes = {108} ]

\* prices in half points: an entry at 100 (200) with the stop 10 below and
\* the target 10 above, a trailing stop that activates at 50% of the way to the
\* target and trails by 50% of the profit, on a feed of 107 (214) and 103 (206)
TrailingScenarioSession ==
    [ TrailingSession EXCEPT
        !.config.stop_loss_points = 20,
        !.config.target_points = 20,
        !.config.max_daily_trades = 1,
        !.close_prices = {198},
        !.breakout_quotes = {None, 200},
        !.trade_quotes = {None, 214, 206},
        !.cleanup_quotes = {206} ]

\* one trade a day entered at 100, one rung {15 min, 5%, 50%}, no trailing,
\* on a feed that stays at 106, held for at most 21 minutes
PartialScenarioSession ==
    [ LadderSession EXCEPT
        !.config.max_holding_period_minutes = 21,
        !.config.exits =
            << [time_minutes |-> 15, min_profit_percentage |-> 5, exit_percentage |-> 50] >>,
        !.config.trailing_enabled = FALSE,
        !.close_prices = {98},
        !.breakout_quotes = {None, 100},
        !.trade_quotes = {None, 106},
        !.cleanup_quotes = {106} ]

\* one trade a day with the stop taken from the ATR of the index, neither
\* partial exits nor trailing
AtrSession ==
    [ LadderSession EXCEPT
        !.config.max_holding_period_minutes = 1,
        !.config.partial_exits_enabled = FALSE,
        !.config.trailing_enabled = FALSE,
        !.config.use_atr_stop_loss = TRUE,
        !.close_prices = {100},
        !.breakout_quotes = {None, 104},
        !.trade_quotes = {None, 104, 112},
        !.cleanup_quotes = {None, 108} ]

Sessions == <<LadderSession, PlainSession, PartialSession, TrailingSession,
              TwoIndexSession, MissingRiskSession, TrailingScenarioSession,
              PartialScenarioSession, AtrSession>>

config == Sessions[session].config

ClosePrices    == Sessions[session].close_prices
BreakoutQuotes == Sessions[session].breakout_quotes
TradeQuotes    == Sessions[session].trade_quotes
CleanupQuotes  == Sessions[session].cleanup_quotes

\* the absent dictionary entries
NoTrade == 0
NoLevel == [ce_breakout_level |-> None, pe_breakout_level |-> None,
            \* history, not a field of the dataclass: the sides of this level
            \* enter_trade has opened a Position from
            entered |-> {}]

\* thread 0 is the main thread; the monitor_trade thread of trade n is
\* thread n, and no session allows more than two trades a day
Main     == 0
Monitors == {1, 2}
Threads  == {Main} \cup Monitors

Indexes == {config.symbols[i] : i \in 1..Len(config.symbols)}

\* the locals of a thread that is not running
Idle == [pc |-> "idle", index |-> "", trade |-> NoTrade, price |-> None,
         reason |-> "", etrade |-> NoTrade, rung |-> 0, qty |-> 0,
         elapsed |-> 0, ok |-> TRUE, seen |-> None, pnl |-> 0,
         \* history: the tick this thread has just ended had no usable quote
         failed |-> FALSE,
         \* history: the rungs recorded on the tick this thread is in
         fired |-> 0,
         \* history: log_trade_to_file, called by this thread, wrote its row
         written |-> TRUE]

----------------------------------------------------------------------------
(* Pure functions *)

TradeRecord(symbol, entry_time, entry_price, quantity, direction, stop_loss, target) ==
    [symbol |-> symbol, entry_time |-> entry_time, entry_price |-> entry_price,
     quantity |-> quantity, direction |-> direction, stop_loss |-> stop_loss,
     target |-> target, exit_time |-> None, exit_price |-> None,
     exit_reason |-> "", pnl |-> 0, partial_exits |-> <<>>,
     \* history, not fields of the dataclass: the quantity the position was
     \* entered with, the runs of exit_trade's success path, the quantity of
     \* the last exit order accepted, the trade-history rows written
     entry_quantity |-> quantity, settled |-> 0, exit_quantity |-> 0, rows |-> 0]

\* A TradeRecord that neither active_trades nor a running thread refers to
\* can no longer be read or written by the program: it is garbage, and the
\* model drops its contents
Garbage == TradeRecord("", 0, 0, 0, "", 0, 0)

Referenced(id, registry, locals) ==
    \/ \E i \in DOMAIN registry : registry[i] = id
    \/ \E t \in DOMAIN locals : locals[t].trade = id \/ locals[t].etrade = id

Sweep(records, registry, locals) ==
    [id \in DOMAIN records |->
        IF Referenced(id, registry, locals) THEN records[id] ELSE Garbage]

\* Python truthiness of an Optional[float]: None and 0.0 are false
Truthy(price) == price # None /\ price # 0

\* the longest history of the index get_historical_data answers with
MaxOhlcBars == 3

OhlcBars == {[high |-> 100, low |-> 100, close |-> 100],
             [high |-> 104, low |-> 100, close |-> 102]}

\* what get_historical_data(index_symbol, days=5) returns to
\* calculate_stop_loss: <<>> is the empty DataFrame of a fetch that failed
OhlcHistories == UNION {[1..n -> OhlcBars] : n \in 0..MaxOhlcBars}

Abs(x) == IF x < 0 THEN -x ELSE x

Max(x, y) == IF x < y THEN y ELSE x

\* true_range of row i, for i > 1; row 1 has no previous close and its
\* true_range is NaN
true_range(df, i) ==
    Max(df[i].high - df[i].low,
        Max(Abs(df[i].high - df[i - 1].close), Abs(df[i].low - df[i - 1].close)))

RECURSIVE SumTrueRange(_, _, _)
SumTrueRange(df, from, to) ==
    IF from > to THEN 0 ELSE true_range(df, from) + SumTrueRange(df, from + 1, to)

\* the mean of the last `periods` true ranges; a window that holds row 1
\* holds its NaN, the mean is NaN and 0.0 is returned
calculate_atr(df, periods) ==
    IF Len(df) < periods THEN 0
    ELSE IF Len(df) - periods + 1 = 1 THEN 0
    ELSE SumTrueRange(df, Len(df) - periods + 1, Len(df)) \div periods

\* df is the history of the index the ATR branch fetches
calculate_stop_loss(entry_price, direction, df) ==
    IF config.use_atr_stop_loss /\ df # <<>>
    THEN LET atr      == calculate_atr(df, config.atr_periods)
             atr_stop == atr * config.atr_multiplier
         IN  IF direction = "LONG" THEN entry_price - atr_stop
                                   ELSE entry_price + atr_stop
    ELSE IF direction = "LONG" THEN entry_price - config.stop_loss_points
                               ELSE entry_price + config.stop_loss_points

\* validate_config of src/config.py on the trading.risk_management fields: a
\* required field is absent or holds a placeholder string
validate_config(cfg) ==
    \A field \in {"stop_loss_points", "target_points"} :
        cfg[field] # None /\ cfg[field] # Placeholder

\* enter_trade raises before it places the order: KeyError for an absent
\* stop_loss_points or target_points, TypeError for a string in their place
RiskParameterError ==
    \/ config.stop_loss_points \in {None, Placeholder}
    \/ config.target_points \in {None, Placeholder}

\* validate_entry_conditions without its test of the trade count
validate_entry_conditionsNoCeiling(volume_ok, momentum_ok) ==
    IF daily_pnl <= config.max_daily_loss THEN FALSE
    ELSE volume_ok /\ momentum_ok

validate_entry_conditions(volume_ok, momentum_ok) ==
    IF daily_trades_count >= config.max_daily_trades THEN FALSE
    ELSE IF daily_pnl <= config.max_daily_loss THEN FALSE
    ELSE volume_ok /\ momentum_ok

\* Breakout5MinStrategy (src/breakout_strategy_main.py) before
\* monitor_option_high_breakout is called
B5Idle == [pc |-> "idle", ce_breakout |-> 0, pe_breakout |-> 0,
           max_premium_pct |-> 0, elapsed |-> 0, breakout_taken |-> FALSE,
           opt |-> 0, ltp |-> None, entry_symbol |-> "", entry_price |-> None,
           \* history: a breach was passed over as too expensive
           skipped |-> FALSE,
           \* the locals of execute_trade; sl, target and trailing_sl are in
           \* tenths of a point, held is time.time() - start_time in seconds
           max_holding_minutes |-> 0, sl |-> 0, target |-> 0, trailing_sl |-> 0,
           held |-> 0, exit_reason |-> "", exit_price |-> None,
           \* the reasons of the rows log_trade has written
           rows |-> <<>>,
           \* history: a get_ltp of execute_trade's loop returned a price
           priced |-> FALSE]

\* trading.entry_filters of config.yaml; volume_threshold in hundredths
EntryFilters(volume_confirmation, volume_periods, momentum_confirmation, momentum_periods) ==
    [volume_confirmation   |-> volume_confirmation,
     volume_periods        |-> volume_periods,
     volume_threshold      |-> 150,
     momentum_confirmation |-> momentum_confirmation,
     momentum_periods      |-> momentum_periods]

\* validate_entry_conditions before it is called
EFIdle == [pc |-> "idle", entry_filters |-> EntryFilters(FALSE, 1, FALSE, 1),
           volume_df |-> <<>>, volume_raised |-> FALSE, volume_ok |-> FALSE,
           momentum_df |-> <<>>, momentum_raised |-> FALSE, momentum_ok |-> FALSE,
           result |-> FALSE]

\* get_historical_data before it is called
GHIdle == [pc |-> "idle", max_retries |-> 0, responses |-> <<>>, attempt |-> 0,
           result |-> <<>>]

----------------------------------------------------------------------------
Init ==
    /\ session \in DOMAIN Sessions
    /\ trading_active = FALSE
    /\ first_candle_captured = FALSE
    /\ breakout_levels = [i \in Indexes |-> NoLevel]
    /\ active_trades = [i \in Indexes |-> NoTrade]
    /\ trades = <<>>
    /\ daily_pnl = 0
    /\ realized_pnl = 0
    /\ daily_trades_count = 0
    /\ now = 0
    /\ th = [t \in Threads |-> IF t = Main THEN [Idle EXCEPT !.pc = "run"] ELSE Idle]
    /\ mb_i = 1
    /\ cl_keys = <<>>
    /\ b5 = B5Idle
    /\ ef = EFIdle
    /\ gh = GHIdle

----------------------------------------------------------------------------
(* run_strategy, capture_first_candle, monitor_breakouts, enter_trade:     *)
(* the main thread                                                         *)

\* run_strategy up to the call of capture_first_candle
RunStrategy ==
    /\ th[Main].pc = "run"
    /\ trading_active' = TRUE
    /\ th' = [th EXCEPT ![Main].pc = "capture"]
    /\ UNCHANGED <<b5, ef, gh, session, realized_pnl, first_candle_captured, breakout_levels, active_trades, trades,
                   daily_pnl, daily_trades_count, now, mb_i, cl_keys>>

\* CapturedLevel with the failure tests of capture_first_candle left out
CapturedLevelUnchecked(df_empty, ce_price, pe_price) ==
    [ce_breakout_level |-> ce_price + config.breakout_buffer,
     pe_breakout_level |-> pe_price + config.breakout_buffer,
     entered |-> {}]

\* the BreakoutLevel capture_first_candle stores for one index, from the
\* history fetch and the two option quotes
CapturedLevel(df_empty, ce_price, pe_price) ==
    IF df_empty \/ ce_price = None \/ pe_price = None
    THEN NoLevel
    ELSE [ce_breakout_level |-> ce_price + config.breakout_buffer,
          pe_breakout_level |-> pe_price + config.breakout_buffer,
          entered |-> {}]

\* capture_first_candle, and run_strategy's test of first_candle_captured
CaptureFirstCandle ==
    /\ th[Main].pc = "capture"
    /\ \/ \E df_empty \in [Indexes -> BOOLEAN], ce \in [Indexes -> ClosePrices],
             pe \in [Indexes -> ClosePrices] :
            /\ breakout_levels' =
                   [i \in Indexes |-> CapturedLevel(df_empty[i], ce[i], pe[i])]
            /\ first_candle_captured' = TRUE
            /\ th' = [th EXCEPT ![Main].pc = "mb_top"]
       \/ \* an exception inside the try block: nothing is captured
          /\ UNCHANGED <<breakout_levels, first_candle_captured>>
          /\ th' = [th EXCEPT ![Main].pc = "cleanup"]
    /\ mb_i' = 1
    /\ UNCHANGED <<b5, ef, gh, session, realized_pnl, trading_active, active_trades, trades, daily_pnl,
                   daily_trades_count, now, cl_keys>>

\* the for loop of monitor_breakouts moves on; after the last index the pass
\* ends, the thread sleeps and the next pass starts with the first index
NextIndex(i) == IF i >= Len(config.symbols) THEN 1 ELSE i + 1

\* one step of the for loop of monitor_breakouts: the end of a pass, an index
\* without a level, the `index_name in self.active_trades` test
MB_Check ==
    /\ th[Main].pc = "mb_top"
    /\ trading_active
    /\ LET idx == config.symbols[mb_i] IN
            IF breakout_levels[idx] = NoLevel \/ active_trades[idx] # NoTrade
            THEN /\ mb_i' = NextIndex(mb_i)
                 /\ th' = [th EXCEPT ![Main].ok = TRUE]
            ELSE /\ th' = [th EXCEPT ![Main].pc = "mb_ce", ![Main].index = idx,
                                     ![Main].ok = TRUE]
                 /\ UNCHANGED mb_i
    /\ UNCHANGED <<b5, ef, gh, session, realized_pnl, trading_active, first_candle_captured, breakout_levels,
                   active_trades, trades, daily_pnl, daily_trades_count, now,
                   cl_keys>>

\* where the for loop goes after the CE side, and after the PE side
AfterSide(side) == IF side = "CE" THEN "mb_pe" ELSE "mb_top"

SidePc(side) == IF side = "CE" THEN "mb_ce" ELSE "mb_pe"

EnterPc(side) == IF side = "CE" THEN "enter_CE" ELSE "enter_PE"

SideLevel(idx, side) ==
    IF side = "CE" THEN breakout_levels[idx].ce_breakout_level
                   ELSE breakout_levels[idx].pe_breakout_level

\* the breach test of monitor_breakouts for one side
Breached(price, level) == Truthy(price) /\ price >= level

\* the quote of one side arrives: breach test and validate_entry_conditions;
\* on success enter_trade runs up to the order it places
MB_Poll(side) ==
    /\ th[Main].pc = SidePc(side)
    /\ \E price \in BreakoutQuotes, volume_ok \in BOOLEAN, momentum_ok \in BOOLEAN :
          IF /\ Breached(price, SideLevel(th[Main].index, side))
             /\ validate_entry_conditions(volume_ok, momentum_ok)
          THEN /\ th' = [th EXCEPT ![Main].pc = EnterPc(side),
                                   ![Main].price = price, ![Main].ok = TRUE]
               /\ UNCHANGED mb_i
          ELSE /\ th' = [th EXCEPT ![Main].pc = AfterSide(side),
                                   ![Main].price = None, ![Main].ok = TRUE]
               /\ mb_i' = IF side = "PE" THEN NextIndex(mb_i) ELSE mb_i
    /\ UNCHANGED <<b5, ef, gh, session, realized_pnl, trading_active, first_candle_captured, breakout_levels,
                   active_trades, trades, daily_pnl, daily_trades_count, now,
                   cl_keys>>

\* enter_trade with the TradeRecord stored whatever execute_trade answers
enter_tradeUnchecked(side, order_ok, df) ==
    LET idx         == th[Main].index
        entry_price == th[Main].price
        id          == Len(trades) + 1
        back        == [th EXCEPT ![Main].pc = AfterSide(side), ![Main].price = None,
                                  ![Main].ok = order_ok /\ ~RiskParameterError]
    IN
    /\ IF ~RiskParameterError
       THEN /\ active_trades' = [active_trades EXCEPT ![idx] = id]
            /\ daily_trades_count' = daily_trades_count + 1
            /\ th' = [back EXCEPT ![id] = [Idle EXCEPT !.pc = "mt_start", !.index = idx]]
            /\ trades' = Sweep(Append(trades,
                   TradeRecord(side, now, entry_price, config.quantity, "LONG",
                               calculate_stop_loss(entry_price, "LONG", df),
                               entry_price + config.target_points)),
                   active_trades', th')
            /\ breakout_levels' = [breakout_levels EXCEPT ![idx].entered = @ \cup {side}]
       ELSE /\ th' = back
            /\ UNCHANGED <<trades, active_trades, daily_trades_count, breakout_levels>>
    /\ mb_i' = IF side = "PE" THEN NextIndex(mb_i) ELSE mb_i

\* enter_trade once execute_trade has answered: on success the TradeRecord is
\* stored in active_trades and its monitor_trade thread is started; an
\* exception raised on the way is logged and nothing is stored
enter_trade(side, order_ok, df) ==
    LET idx         == th[Main].index
        entry_price == th[Main].price
        id          == Len(trades) + 1
        \* .ok is history here: whether this call stored a TradeRecord
        back        == [th EXCEPT ![Main].pc = AfterSide(side), ![Main].price = None,
                                  ![Main].ok = order_ok /\ ~RiskParameterError]
    IN
    /\ IF order_ok /\ ~RiskParameterError
       THEN /\ active_trades' = [active_trades EXCEPT ![idx] = id]
            /\ daily_trades_count' = daily_trades_count + 1
            /\ th' = [back EXCEPT ![id] = [Idle EXCEPT !.pc = "mt_start", !.index = idx]]
            /\ trades' = Sweep(Append(trades,
                   TradeRecord(side, now, entry_price, config.quantity, "LONG",
                               calculate_stop_loss(entry_price, "LONG", df),
                               entry_price + config.target_points)),
                   active_trades', th')
            /\ breakout_levels' = [breakout_levels EXCEPT ![idx].entered = @ \cup {side}]
       ELSE /\ th' = back
            /\ UNCHANGED <<trades, active_trades, daily_trades_count, breakout_levels>>
    /\ mb_i' = IF side = "PE" THEN NextIndex(mb_i) ELSE mb_i

MB_Enter(side) ==
    /\ th[Main].pc = EnterPc(side)
    /\ \E order_ok \in BOOLEAN,
          df \in (IF config.use_atr_stop_loss THEN OhlcHistories ELSE {<<>>}) :
             enter_trade(side, order_ok, df)
    /\ UNCHANGED <<b5, ef, gh, session, realized_pnl, trading_active, first_candle_captured,
                   daily_pnl, now, cl_keys>>

\* KeyboardInterrupt in the main thread while monitor_breakouts runs:
\* run_strategy's finally clause calls cleanup
Interrupt ==
    /\ th[Main].pc \in {"mb_top", "mb_ce", "mb_pe", "enter_CE", "enter_PE"}
    /\ th' = [th EXCEPT ![Main] = [Idle EXCEPT !.pc = "cleanup"]]
    /\ UNCHANGED <<b5, ef, gh, session, realized_pnl, trading_active, first_candle_captured, breakout_levels,
                   active_trades, trades, daily_pnl, daily_trades_count, now,
                   mb_i, cl_keys>>

----------------------------------------------------------------------------
(* Pure functions of the position state machine *)

\* check_exit_conditions with the time test made first
check_exit_conditionsTimeFirst(trade, current_price, time) ==
    IF time - trade.entry_time >= config.max_holding_period_minutes THEN "TIME_EXIT"
    ELSE IF trade.direction = "LONG" /\ current_price <= trade.stop_loss THEN "STOP_LOSS"
    ELSE IF trade.direction = "SHORT" /\ current_price >= trade.stop_loss THEN "STOP_LOSS"
    ELSE IF trade.direction = "LONG" /\ current_price >= trade.target THEN "TARGET"
    ELSE IF trade.direction = "SHORT" /\ current_price <= trade.target THEN "TARGET"
    ELSE ""

check_exit_conditions(trade, current_price, time) ==
    IF trade.direction = "LONG" /\ current_price <= trade.stop_loss THEN "STOP_LOSS"
    ELSE IF trade.direction = "SHORT" /\ current_price >= trade.stop_loss THEN "STOP_LOSS"
    ELSE IF trade.direction = "LONG" /\ current_price >= trade.target THEN "TARGET"
    ELSE IF trade.direction = "SHORT" /\ current_price <= trade.target THEN "TARGET"
    ELSE IF time - trade.entry_time >= config.max_holding_period_minutes THEN "TIME_EXIT"
    ELSE ""

\* signed profit in price terms
Profit(trade, current_price) ==
    IF trade.direction = "LONG" THEN current_price - trade.entry_price
                                ELSE trade.entry_price - current_price

\* profit_pct >= min_profit_percentage, with profit_pct = profit / entry * 100
\* and a positive entry price
ProfitPctAtLeast(trade, current_price, min_pct) ==
    Profit(trade, current_price) * 100 >= min_pct * trade.entry_price

\* int(x / 100): Python's int() truncates towards zero
IntDiv100(x) == IF x >= 0 THEN x \div 100 ELSE -((-x) \div 100)

\* exit_qty = int(trade.quantity * exit_percentage / 100)
ExitQty(quantity, exit_percentage) == IntDiv100(quantity * exit_percentage)

\* `any(pe['time_minutes'] == exit_config['time_minutes'] ...)`
AlreadyExecuted(trade, k) ==
    \E n \in 1..Len(trade.partial_exits) :
        trade.partial_exits[n].time_minutes = config.exits[k].time_minutes

\* the tests a rung of the ladder passes before check_partial_exits places
\* its order
RungFires(trade, k, time_elapsed, current_price) ==
    /\ ~AlreadyExecuted(trade, k)
    /\ time_elapsed >= config.exits[k].time_minutes
    /\ ProfitPctAtLeast(trade, current_price, config.exits[k].min_profit_percentage)

\* NextRung with the for loop left after the first rung that fires
NextRungThenBreak(trade, from, time_elapsed, current_price) ==
    LET firing == {k \in from..Len(config.exits) :
                       RungFires(trade, k, time_elapsed, current_price)}
    IN IF firing = {} \/ from > 1 THEN 0
       ELSE CHOOSE k \in firing : \A j \in firing : k <= j

\* the first rung from position `from` on that fires, 0 if none does
NextRung(trade, from, time_elapsed, current_price) ==
    LET firing == {k \in from..Len(config.exits) :
                       RungFires(trade, k, time_elapsed, current_price)}
    IN IF firing = {} THEN 0
       ELSE CHOOSE k \in firing : \A j \in firing : k <= j

\* update_trailing_stop: is trailing active at this price
TrailingActive(trade, current_price) ==
    LET target_profit == IF trade.direction = "LONG"
                         THEN trade.target - trade.entry_price
                         ELSE trade.entry_price - trade.target
    IN /\ config.trailing_enabled
       /\ Profit(trade, current_price) * 100
              >= target_profit * config.activation_percentage

\* NewStop with the whole profit given back
NewStopAtEntry(trade, current_price) ==
    LET trailing_amount == Profit(trade, current_price)
    IN IF trade.direction = "LONG" THEN current_price - trailing_amount
                                   ELSE current_price + trailing_amount

\* update_trailing_stop: the candidate stop
NewStop(trade, current_price) ==
    LET trailing_amount ==
            (Profit(trade, current_price) * config.trailing_percentage) \div 100
    IN IF trade.direction = "LONG" THEN current_price - trailing_amount
                                   ELSE current_price + trailing_amount

\* update_trailing_stop: the test under which the candidate is adopted, given
\* the stop_loss value loaded for the comparison
Tightens(direction, new_stop, stop_loss) ==
    IF direction = "LONG" THEN new_stop > stop_loss ELSE new_stop < stop_loss

RECURSIVE PartialPnl(_, _)
PartialPnl(trade, n) ==
    IF n = 0 THEN 0
    ELSE PartialPnl(trade, n - 1) +
         (IF trade.direction = "LONG"
          THEN (trade.partial_exits[n].exit_price - trade.entry_price)
                   * trade.partial_exits[n].quantity
          ELSE (trade.entry_price - trade.partial_exits[n].exit_price)
                   * trade.partial_exits[n].quantity)

\* the pnl exit_trade computes
ExitPnl(trade, exit_price) ==
    Profit(trade, exit_price) * trade.quantity
        + PartialPnl(trade, Len(trade.partial_exits))

----------------------------------------------------------------------------
(* exit_trade, run by a monitor_trade thread or by cleanup on the main     *)
(* thread                                                                  *)

\* the process lives as long as its main thread: the monitor threads are
\* daemon threads
Alive == th[Main].pc \notin {"done", "crashed"}

\* the locals of thread t once exit_trade has returned to its caller:
\* monitor_trade breaks out of its loop, cleanup goes on with the next key
Returned(t, ok) ==
    IF t = Main
    THEN [Idle EXCEPT !.pc = "cl_loop"]
    ELSE [Idle EXCEPT !.pc = "done", !.index = th[t].index, !.ok = ok]

\* exit_trade(index_name, exit_price, exit_reason) up to the order it places:
\* the locals of thread t after the lookup in active_trades
ExitTradeCall(t, index_name, exit_price, exit_reason) ==
    LET id == active_trades[index_name] IN
    IF id = NoTrade
    THEN Returned(t, TRUE)
    ELSE [th[t] EXCEPT !.pc = "et_resp", !.index = index_name, !.etrade = id,
                       !.qty = trades[id].quantity, !.price = exit_price,
                       !.reason = exit_reason, !.rung = 0, !.elapsed = 0]

\* ET_Resp with the exit fields written before the answer of the order is
\* looked at
ET_RespEarlyWrite(t) ==
    /\ Alive
    /\ th[t].pc = "et_resp"
    /\ \E order_ok \in BOOLEAN :
          LET id  == th[t].etrade
              pnl == ExitPnl(trades[id], th[t].price)
          IN IF order_ok
             THEN /\ trades' = [trades EXCEPT ![id].exit_time = now,
                                              ![id].exit_price = th[t].price,
                                              ![id].exit_reason = th[t].reason,
                                              ![id].pnl = pnl,
                                              ![id].settled = @ + 1,
                                              ![id].exit_quantity = th[t].qty]
                  /\ th' = [th EXCEPT ![t].pc = "et_store", ![t].seen = daily_pnl,
                                      ![t].pnl = pnl, ![t].ok = TRUE]
                  /\ realized_pnl' = realized_pnl + pnl
                         - (IF trades[id].settled > 0 THEN trades[id].pnl ELSE 0)
             ELSE /\ th' = [th EXCEPT ![t] = Returned(t, FALSE)]
                  /\ trades' = Sweep([trades EXCEPT ![id].exit_price = th[t].price,
                                                    ![id].exit_reason = th[t].reason],
                                     active_trades, th')
                  /\ UNCHANGED realized_pnl
    /\ UNCHANGED <<b5, ef, gh, session, trading_active, first_candle_captured, breakout_levels,
                   active_trades, daily_pnl, daily_trades_count, now, mb_i,
                   cl_keys>>

\* execute_trade answers the exit order: on success the P&L is computed, the
\* record updated and daily_pnl loaded for the addition
ET_Resp(t) ==
    /\ Alive
    /\ th[t].pc = "et_resp"
    /\ \E order_ok \in BOOLEAN :
          IF order_ok
          THEN LET id  == th[t].etrade
                   pnl == ExitPnl(trades[id], th[t].price)
               IN /\ trades' = [trades EXCEPT ![id].exit_time = now,
                                              ![id].exit_price = th[t].price,
                                              ![id].exit_reason = th[t].reason,
                                              ![id].pnl = pnl,
                                              ![id].settled = @ + 1,
                                              ![id].exit_quantity = th[t].qty]
                  /\ th' = [th EXCEPT ![t].pc = "et_store", ![t].seen = daily_pnl,
                                      ![t].pnl = pnl, ![t].ok = TRUE]
                  /\ realized_pnl' = realized_pnl + pnl
                         - (IF trades[id].settled > 0 THEN trades[id].pnl ELSE 0)
          ELSE /\ th' = [th EXCEPT ![t] = Returned(t, FALSE)]
               /\ trades' = Sweep(trades, active_trades, th')
               /\ UNCHANGED realized_pnl
    /\ UNCHANGED <<b5, ef, gh, session, trading_active, first_candle_captured, breakout_levels,
                   active_trades, daily_pnl, daily_trades_count, now, mb_i,
                   cl_keys>>

\* the store of `self.daily_pnl += pnl`
ET_Store(t) ==
    /\ Alive
    /\ th[t].pc = "et_store"
    /\ daily_pnl' = th[t].seen + th[t].pnl
    /\ th' = [th EXCEPT ![t].pc = "et_del", ![t].seen = None, ![t].pnl = 0]
    /\ UNCHANGED <<b5, ef, gh, session, realized_pnl, trading_active, first_candle_captured, breakout_levels,
                   active_trades, trades, daily_trades_count, now, mb_i,
                   cl_keys>>

\* ET_Del with the row written before the entry is deleted, and a failed
\* write ending exit_trade in its except clause
ET_DelAfterLog(t) ==
    /\ Alive
    /\ th[t].pc = "et_del"
    /\ IF active_trades[th[t].index] = NoTrade
       THEN /\ th' = [th EXCEPT ![t] = Returned(t, TRUE)]
            /\ UNCHANGED active_trades
            /\ trades' = Sweep(trades, active_trades, th')
       ELSE \E written \in BOOLEAN :
               /\ th' = IF written
                        THEN [th EXCEPT ![t] = Returned(t, TRUE)]
                        ELSE [th EXCEPT ![t].pc = "et_ret", ![t].written = FALSE]
               /\ active_trades' = IF written
                                   THEN [active_trades EXCEPT ![th[t].index] = NoTrade]
                                   ELSE active_trades
               /\ trades' = Sweep(IF written
                                  THEN [trades EXCEPT ![th[t].etrade].rows = @ + 1]
                                  ELSE trades,
                                  active_trades', th')
    /\ UNCHANGED <<b5, ef, gh, session, realized_pnl, trading_active, first_candle_captured, breakout_levels,
                   daily_pnl, daily_trades_count, now, mb_i, cl_keys>>

\* `del self.active_trades[index_name]` (a KeyError ends exit_trade in its
\* except clause) and log_trade_to_file; when its write fails, the except
\* clause of log_trade_to_file is entered
ET_Del(t) ==
    /\ Alive
    /\ th[t].pc = "et_del"
    /\ IF active_trades[th[t].index] = NoTrade
       THEN /\ th' = [th EXCEPT ![t] = Returned(t, TRUE)]
            /\ UNCHANGED active_trades
            /\ trades' = Sweep(trades, active_trades, th')
       ELSE \E written \in BOOLEAN :
               /\ th' = IF written
                        THEN [th EXCEPT ![t] = Returned(t, TRUE)]
                        ELSE [th EXCEPT ![t].pc = "et_ret", ![t].written = FALSE]
               /\ active_trades' = [active_trades EXCEPT ![th[t].index] = NoTrade]
               /\ trades' = Sweep(IF written
                                  THEN [trades EXCEPT ![th[t].etrade].rows = @ + 1]
                                  ELSE trades,
                                  active_trades', th')
    /\ UNCHANGED <<b5, ef, gh, session, realized_pnl, trading_active, first_candle_captured, breakout_levels,
                   daily_pnl, daily_trades_count, now, mb_i, cl_keys>>

\* the except clause of log_trade_to_file has logged the error:
\* log_trade_to_file returns, and exit_trade returns to its caller
ET_Ret(t) ==
    /\ Alive
    /\ th[t].pc = "et_ret"
    /\ th' = [th EXCEPT ![t] = Returned(t, TRUE)]
    /\ trades' = Sweep(trades, active_trades, th')
    /\ UNCHANGED <<b5, ef, gh, session, realized_pnl, trading_active, first_candle_captured, breakout_levels,
                   active_trades, daily_pnl, daily_trades_count, now, mb_i, cl_keys>>

----------------------------------------------------------------------------
(* cleanup: the main thread                                                *)

\* the keys of active_trades, in the order of config.symbols
RECURSIVE ActiveKeys(_)
ActiveKeys(n) ==
    IF n = 0 THEN <<>>
    ELSE IF active_trades[config.symbols[n]] # NoTrade
         THEN Append(ActiveKeys(n - 1), config.symbols[n])
         ELSE ActiveKeys(n - 1)

\* CL_Start with trading_active left set and monitor_breakouts resumed
CL_StartWithoutStop ==
    /\ th[Main].pc = "cleanup"
    /\ th' = [th EXCEPT ![Main].pc = "mb_top"]
    /\ UNCHANGED <<b5, ef, gh, session, realized_pnl, trading_active, first_candle_captured,
                   breakout_levels, active_trades, trades, daily_pnl,
                   daily_trades_count, now, mb_i, cl_keys>>

CL_Start ==
    /\ th[Main].pc = "cleanup"
    /\ trading_active' = FALSE
    /\ cl_keys' = ActiveKeys(Len(config.symbols))
    /\ th' = [th EXCEPT ![Main].pc = "cl_loop"]
    /\ UNCHANGED <<b5, ef, gh, session, realized_pnl, first_candle_captured, breakout_levels, active_trades, trades,
                   daily_pnl, daily_trades_count, now, mb_i>>

\* the head of the for loop of cleanup: `trade = self.active_trades[index_name]`
\* raises KeyError, which nothing catches, when the entry is gone
CL_Next ==
    /\ th[Main].pc = "cl_loop"
    /\ IF cl_keys = <<>>
       THEN /\ th' = [th EXCEPT ![Main].pc = "done"]
            /\ UNCHANGED cl_keys
       ELSE /\ cl_keys' = Tail(cl_keys)
            /\ IF active_trades[Head(cl_keys)] = NoTrade
               THEN th' = [th EXCEPT ![Main].pc = "crashed"]
               ELSE th' = [th EXCEPT ![Main].pc = "cl_price",
                                     ![Main].index = Head(cl_keys)]
    /\ UNCHANGED <<b5, ef, gh, session, realized_pnl, trading_active, first_candle_captured, breakout_levels,
                   active_trades, trades, daily_pnl, daily_trades_count, now,
                   mb_i>>

\* the quote cleanup asked for arrives; `if current_price:` exit_trade
CL_Price ==
    /\ th[Main].pc = "cl_price"
    /\ \E current_price \in CleanupQuotes :
          IF Truthy(current_price)
          THEN th' = [th EXCEPT ![Main] =
                         ExitTradeCall(Main, th[Main].index, current_price, "CLEANUP")]
          ELSE th' = [th EXCEPT ![Main] = [Idle EXCEPT !.pc = "cl_loop"]]
    /\ UNCHANGED <<b5, ef, gh, session, realized_pnl, trading_active, first_candle_captured, breakout_levels,
                   active_trades, trades, daily_pnl, daily_trades_count, now,
                   mb_i, cl_keys>>

----------------------------------------------------------------------------
(* monitor_trade, check_partial_exits, update_trailing_stop: one daemon    *)
(* thread per trade entered                                                *)

\* `trade = self.active_trades.get(index_name)`, the first statement the new
\* thread runs
MT_Start(t) ==
    /\ Alive
    /\ th[t].pc = "mt_start"
    /\ IF active_trades[th[t].index] = NoTrade
       THEN th' = [th EXCEPT ![t].pc = "done"]
       ELSE th' = [th EXCEPT ![t].pc = "mt_loop",
                             ![t].trade = active_trades[th[t].index]]
    /\ UNCHANGED <<b5, ef, gh, session, realized_pnl, trading_active, first_candle_captured, breakout_levels,
                   active_trades, trades, daily_pnl, daily_trades_count, now,
                   mb_i, cl_keys>>

\* `while index_name in self.active_trades:` and the quote request
MT_Loop(t) ==
    /\ Alive
    /\ th[t].pc = "mt_loop"
    /\ IF active_trades[th[t].index] = NoTrade
       THEN th' = [th EXCEPT ![t] = [Idle EXCEPT !.pc = "done", !.index = th[t].index]]
       ELSE th' = [th EXCEPT ![t].pc = "mt_tick", ![t].failed = FALSE]
    /\ trades' = Sweep(trades, active_trades, th')
    /\ UNCHANGED <<b5, ef, gh, session, realized_pnl, trading_active, first_candle_captured, breakout_levels,
                   active_trades, daily_pnl, daily_trades_count, now,
                   mb_i, cl_keys>>

\* the locals of thread t at the end of a tick, asleep before the next one
Sleeping(t) ==
    [Idle EXCEPT !.pc = "mt_loop", !.index = th[t].index, !.trade = th[t].trade]

\* update_trailing_stop(trade, current_price) up to the load of
\* trade.stop_loss for the comparison: the locals of thread t
TrailingCall(t, trade, current_price) ==
    IF TrailingActive(trade, current_price)
    THEN [Sleeping(t) EXCEPT !.pc = "ts_store", !.price = current_price,
                             !.seen = trade.stop_loss]
    ELSE Sleeping(t)

\* the for loop of check_partial_exits from rung `from` on, up to the order of
\* the first rung that fires; with no such rung, update_trailing_stop
LadderFrom(t, trade, from, time_elapsed, current_price) ==
    LET k == IF config.partial_exits_enabled
             THEN NextRung(trade, from, time_elapsed, current_price) ELSE 0
    IN IF k # 0
       THEN [th[t] EXCEPT !.pc = "pe_resp", !.price = current_price, !.rung = k,
                          !.elapsed = time_elapsed,
                          !.qty = ExitQty(trade.quantity, config.exits[k].exit_percentage)]
       ELSE TrailingCall(t, trade, current_price)

\* TickOutcome with the ladder and the trailing stop run before the exit
\* conditions are looked at
TickOutcomeLadderFirst(t, current_price) ==
    LET trade  == trades[th[t].trade]
        reason == check_exit_conditions(trade, current_price, now)
        ladder == LadderFrom(t, trade, 1, now - trade.entry_time, current_price)
    IN IF current_price \in {None, Malformed} THEN [Sleeping(t) EXCEPT !.failed = TRUE]
       ELSE IF ladder.pc # "mt_loop" THEN ladder
       ELSE IF reason # ""
       THEN ExitTradeCall(t, th[t].index, current_price, reason)
       ELSE ladder

\* TickOutcome with a missing quote taken for a price at the stop
TickOutcomeNoneIsPrice(t, current_price) ==
    LET trade  == trades[th[t].trade]
        reason == check_exit_conditions(trade, current_price, now)
    IN IF current_price \in {None, Malformed}
       THEN ExitTradeCall(t, th[t].index, current_price, "STOP_LOSS")
       ELSE IF reason # ""
       THEN ExitTradeCall(t, th[t].index, current_price, reason)
       ELSE LadderFrom(t, trade, 1, now - trade.entry_time, current_price)

\* one pass of the loop body of monitor_trade, from the quote to the first
\* order it places: no price, a terminal exit, or partial exits and trailing
TickOutcome(t, current_price) ==
    LET trade  == trades[th[t].trade]
        reason == check_exit_conditions(trade, current_price, now)
    IN IF current_price = None THEN [Sleeping(t) EXCEPT !.failed = TRUE]
       ELSE IF current_price = Malformed
       THEN \* check_exit_conditions raises; the except clause of monitor_trade
            [Sleeping(t) EXCEPT !.failed = TRUE]
       ELSE IF reason # ""
       THEN ExitTradeCall(t, th[t].index, current_price, reason)
       ELSE LadderFrom(t, trade, 1, now - trade.entry_time, current_price)

MT_Tick(t) ==
    /\ Alive
    /\ th[t].pc = "mt_tick"
    /\ \E current_price \in TradeQuotes \cup {Malformed} :
          th' = [th EXCEPT ![t] = TickOutcome(t, current_price)]
    /\ trades' = Sweep(trades, active_trades, th')
    /\ UNCHANGED <<b5, ef, gh, session, realized_pnl, trading_active, first_candle_captured, breakout_levels,
                   active_trades, daily_pnl, daily_trades_count, now,
                   mb_i, cl_keys>>

\* execute_partial_exit answers: on success the partial exit is recorded and
\* the quantity reduced
PE_Resp(t) ==
    /\ Alive
    /\ th[t].pc = "pe_resp"
    /\ \E order_ok \in BOOLEAN :
          /\ th' = [th EXCEPT ![t].pc = "pe_next", ![t].ok = order_ok,
                               ![t].fired = IF order_ok THEN @ + 1 ELSE @]
          /\ IF order_ok
             THEN LET id == th[t].trade IN
                  trades' = [trades EXCEPT
                      ![id].partial_exits = Append(@,
                          [time_minutes |-> config.exits[th[t].rung].time_minutes,
                           exit_price   |-> th[t].price,
                           quantity     |-> th[t].qty]),
                      ![id].quantity = @ - th[t].qty]
             ELSE UNCHANGED trades
    /\ UNCHANGED <<b5, ef, gh, session, realized_pnl, trading_active, first_candle_captured, breakout_levels,
                   active_trades, daily_pnl, daily_trades_count, now, mb_i,
                   cl_keys>>

\* the for loop of check_partial_exits goes on with the following rungs
PE_Next(t) ==
    /\ Alive
    /\ th[t].pc = "pe_next"
    /\ th' = [th EXCEPT ![t] = LadderFrom(t, trades[th[t].trade], th[t].rung + 1,
                                          th[t].elapsed, th[t].price)]
    /\ UNCHANGED <<b5, ef, gh, session, realized_pnl, trading_active, first_candle_captured, breakout_levels,
                   active_trades, trades, daily_pnl, daily_trades_count, now,
                   mb_i, cl_keys>>

\* TS_Store with the target moved by as much as the stop
TS_StoreMovesTarget(t) ==
    /\ Alive
    /\ th[t].pc = "ts_store"
    /\ LET id       == th[t].trade
           new_stop == NewStop(trades[id], th[t].price)
       IN IF Tightens(trades[id].direction, new_stop, th[t].seen)
          THEN trades' = [trades EXCEPT ![id].stop_loss = new_stop,
                                        ![id].target = @ + new_stop - th[t].seen]
          ELSE UNCHANGED trades
    /\ th' = [th EXCEPT ![t] = Sleeping(t)]
    /\ UNCHANGED <<b5, ef, gh, session, realized_pnl, trading_active, first_candle_captured, breakout_levels,
                   active_trades, daily_pnl, daily_trades_count, now, mb_i,
                   cl_keys>>

\* update_trailing_stop: the comparison with the stop_loss loaded, and the
\* store
TS_Store(t) ==
    /\ Alive
    /\ th[t].pc = "ts_store"
    /\ LET id       == th[t].trade
           new_stop == NewStop(trades[id], th[t].price)
       IN IF Tightens(trades[id].direction, new_stop, th[t].seen)
          THEN trades' = [trades EXCEPT ![id].stop_loss = new_stop]
          ELSE UNCHANGED trades
    /\ th' = [th EXCEPT ![t] = Sleeping(t)]
    /\ UNCHANGED <<b5, ef, gh, session, realized_pnl, trading_active, first_candle_captured, breakout_levels,
                   active_trades, daily_pnl, daily_trades_count, now, mb_i,
                   cl_keys>>

\* time passes
Tick ==
    /\ Alive
    /\ now < config.max_holding_period_minutes + Slack
    /\ now' = now + 1
    /\ UNCHANGED <<b5, ef, gh, session, realized_pnl, trading_active, first_candle_captured, breakout_levels,
                   active_trades, trades, daily_pnl, daily_trades_count, th,
                   mb_i, cl_keys>>

----------------------------------------------------------------------------
Next ==
    \/ RunStrategy
    \/ CaptureFirstCandle
    \/ MB_Check
    \/ \E side \in {"CE", "PE"} : MB_Poll(side)
    \/ \E side \in {"CE", "PE"} : MB_Enter(side)
    \/ Interrupt
    \/ CL_Start
    \/ CL_Next
    \/ CL_Price
    \/ \E t \in Threads : ET_Resp(t)
    \/ \E t \in Threads : ET_Store(t)
    \/ \E t \in Threads : ET_Del(t)
    \/ \E t \in Threads : ET_Ret(t)
    \/ \E t \in Monitors : MT_Start(t)
    \/ \E t \in Monitors : MT_Loop(t)
    \/ \E t \in Monitors : MT_Tick(t)
    \/ \E t \in Monitors : PE_Resp(t)
    \/ \E t \in Monitors : PE_Next(t)
    \/ \E t \in Monitors : TS_Store(t)
    \/ Tick

Spec == Init /\ [][Next]_vars

\* the steps the main thread takes of its own accord: everything but the
\* KeyboardInterrupt, which comes from outside
MainStep ==
    \/ RunStrategy
    \/ CaptureFirstCandle
    \/ MB_Check
    \/ \E side \in {"CE", "PE"} : MB_Poll(side)
    \/ \E side \in {"CE", "PE"} : MB_Enter(side)
    \/ CL_Start
    \/ CL_Next
    \/ CL_Price
    \/ ET_Resp(Main) \/ ET_Store(Main) \/ ET_Del(Main) \/ ET_Ret(Main)

\* the steps of the monitor_trade thread t
MonitorStep(t) ==
    \/ ET_Resp(t) \/ ET_Store(t) \/ ET_Del(t) \/ ET_Ret(t)
    \/ MT_Start(t) \/ MT_Loop(t) \/ MT_Tick(t)
    \/ PE_Resp(t) \/ PE_Next(t) \/ TS_Store(t)

\* every thread that can run eventually does (its sleeps and blocking calls
\* return), and the clock advances; no KeyboardInterrupt is promised
FairSpec ==
    /\ Spec
    /\ WF_vars(MainStep)
    /\ \A t \in Monitors : WF_vars(MonitorStep(t))
    /\ WF_vars(Tick)

----------------------------------------------------------------------------
(* Breakout5MinStrategy.monitor_option_high_breakout                       *)
(* (src/breakout_strategy_main.py): a loop of its own, run in the thread   *)
(* Breakout5MinStrategy.run starts; it shares nothing with the engine      *)
(* above. Time is in seconds since start_time.                             *)

\* seconds the clock advances in one step
MonitorTick == 1200

max_monitor_time == 60 * 60

\* what monitor_index can pass as breakout levels, the values of
\* config['strategy']['max_entry_premium_pct'], and what get_ltp can answer
B5Levels      == {100, 200}
B5PremiumPcts == {5, 10}
B5Ltps        == {None, 100, 104, 105, 108, 212}

\* the values of config['strategy']['max_holding_minutes'] and what get_ltp
\* can answer while execute_trade holds the position
XTMaxHoldingMinutes == {0, 1}
XTLtps              == {None, 90, 100, 110, 120, 240}

\* TooRisky with the premium limit ignored
TooRiskyNever(ltp, breakout_level, max_premium_pct) == FALSE

\* premium_over_breakout > max_premium_pct, with premium_over_breakout =
\* ((ltp - breakout_level) / breakout_level) * 100 and a positive level
TooRisky(ltp, breakout_level, max_premium_pct) ==
    (ltp - breakout_level) * 100 > max_premium_pct * breakout_level

\* the breakout level of the option the for loop is at
B5Level == IF b5.opt = 1 THEN b5.ce_breakout ELSE b5.pe_breakout

\* the for loop moves on to the PE option, or ends; after it time.sleep(0.5)
\* and the while test
B5Continue(ltp, skipped) ==
    IF b5.opt = 1
    THEN [b5 EXCEPT !.opt = 2, !.ltp = ltp, !.skipped = skipped]
    ELSE [b5 EXCEPT !.pc = "while", !.opt = 0, !.ltp = ltp, !.skipped = skipped]

B5Init ==
    /\ session = 1
    /\ trading_active = FALSE
    /\ first_candle_captured = FALSE
    /\ breakout_levels = [i \in Indexes |-> NoLevel]
    /\ active_trades = [i \in Indexes |-> NoTrade]
    /\ trades = <<>>
    /\ daily_pnl = 0
    /\ realized_pnl = 0
    /\ daily_trades_count = 0
    /\ now = 0
    /\ th = [t \in Threads |-> Idle]
    /\ mb_i = 1
    /\ cl_keys = <<>>
    /\ ef = EFIdle
    /\ gh = GHIdle
    /\ \E ce \in B5Levels, pe \in B5Levels, pct \in B5PremiumPcts,
          minutes \in XTMaxHoldingMinutes :
          b5 = [B5Idle EXCEPT !.pc = "while", !.ce_breakout = ce,
                              !.pe_breakout = pe, !.max_premium_pct = pct,
                              !.max_holding_minutes = minutes]

\* `while not breakout_taken and (time.time() - start_time < max_monitor_time)`
B5_While ==
    /\ b5.pc = "while"
    /\ IF ~b5.breakout_taken /\ b5.elapsed < max_monitor_time
       THEN b5' = [b5 EXCEPT !.pc = "poll", !.opt = 1]
       ELSE b5' = [b5 EXCEPT !.pc = "done"]
    /\ UNCHANGED <<strategy_vars, ef, gh>>

\* one iteration of the for loop: get_ltp, the breach test and the premium
\* test, up to the call of execute_trade
B5_Poll ==
    /\ b5.pc = "poll"
    /\ \E ltp \in B5Ltps :
          IF ltp # None /\ ltp > B5Level
          THEN IF TooRisky(ltp, B5Level, b5.max_premium_pct)
               THEN b5' = B5Continue(ltp, TRUE)
               ELSE b5' = [b5 EXCEPT !.pc = "execute_trade", !.ltp = ltp,
                              !.entry_symbol = IF b5.opt = 1 THEN "CE" ELSE "PE",
                              !.entry_price = ltp]
          ELSE b5' = B5Continue(ltp, b5.skipped)
    /\ UNCHANGED <<strategy_vars, ef, gh>>

\* XTTarget with the target at 1.20 times the entry price
XTTargetWide(entry_price) == 12 * entry_price

\* target = entry_price * 1.10, in tenths of a point
XTTarget(entry_price) == 11 * entry_price

\* execute_trade up to its loop: sl, target and trailing_sl are set and
\* log_trade writes the ENTRY row; log_trade opens the log file with no
\* handler around it, and an exception it raises ends execute_trade and, in
\* the except clause of monitor_option_high_breakout, the monitoring
B5_ExecuteTrade ==
    /\ b5.pc = "execute_trade"
    /\ \E raised \in BOOLEAN :
          IF raised
          THEN b5' = [b5 EXCEPT !.pc = "done"]
          ELSE b5' = [b5 EXCEPT !.pc = "xt_while",
                                !.sl = 9 * b5.entry_price,
                                !.target = XTTarget(b5.entry_price),
                                !.trailing_sl = 9 * b5.entry_price,
                                !.held = 0,
                                !.rows = <<"ENTRY">>]
    /\ UNCHANGED <<strategy_vars, ef, gh>>

\* one iteration of execute_trade's while loop, from its test of the holding
\* time to the sleep or the break
XT_Iteration ==
    /\ b5.pc = "xt_while"
    /\ IF b5.held < b5.max_holding_minutes * 60
       THEN \E ltp \in XTLtps :
               IF ltp = None
               THEN b5' = [b5 EXCEPT !.ltp = ltp, !.held = @ + 5]
               ELSE LET trailing_sl == IF 10 * ltp > 11 * b5.entry_price
                                       THEN Max(b5.trailing_sl, 9 * ltp)
                                       ELSE b5.trailing_sl
                        at          == [b5 EXCEPT !.ltp = ltp, !.priced = TRUE,
                                                  !.trailing_sl = trailing_sl]
                    IN  IF 10 * ltp <= trailing_sl
                        THEN b5' = [at EXCEPT !.pc = "xt_exit",
                                              !.exit_reason = "STOPLOSS",
                                              !.exit_price = ltp]
                        ELSE IF 10 * ltp >= b5.target
                        THEN b5' = [at EXCEPT !.pc = "xt_exit",
                                              !.exit_reason = "TARGET",
                                              !.exit_price = ltp]
                        ELSE b5' = [at EXCEPT !.held = @ + 1]
       ELSE b5' = [b5 EXCEPT !.pc = "xt_exit"]
    /\ UNCHANGED <<strategy_vars, ef, gh>>

\* B5AfterTrade with breakout_taken left unset and the for loop going on
B5AfterTradeNoBreak(after) ==
    IF after.opt = 1 THEN [after EXCEPT !.pc = "poll", !.opt = 2]
                     ELSE [after EXCEPT !.pc = "while", !.opt = 0]

\* execute_trade has returned: breakout_taken = True, break, and
\* `if breakout_taken: break`
B5AfterTrade(after) == [after EXCEPT !.pc = "done", !.breakout_taken = TRUE]

\* the end of execute_trade: the exit row is logged with the reason of the
\* break, or with MAX_HOLDING and a price fetched now when the loop ran out
\* of time, and execute_trade returns; an exception of log_trade ends
\* execute_trade and the monitoring instead
XT_Exit ==
    /\ b5.pc = "xt_exit"
    /\ \E raised \in BOOLEAN, ltp \in XTLtps :
          IF raised
          THEN b5' = [b5 EXCEPT !.pc = "done"]
          ELSE IF b5.exit_reason # ""
          THEN b5' = B5AfterTrade([b5 EXCEPT !.rows = Append(@, b5.exit_reason)])
          ELSE b5' = B5AfterTrade([b5 EXCEPT !.rows = Append(@, "MAX_HOLDING"),
                                             !.ltp = ltp])
    /\ UNCHANGED <<strategy_vars, ef, gh>>

\* time passes
B5_Tick ==
    /\ b5.pc \in {"while", "poll", "execute_trade"}
    /\ b5.elapsed < max_monitor_time
    /\ b5' = [b5 EXCEPT !.elapsed = @ + MonitorTick]
    /\ UNCHANGED <<strategy_vars, ef, gh>>

B5Next == B5_While \/ B5_Poll \/ B5_ExecuteTrade \/ XT_Iteration \/ XT_Exit \/ B5_Tick

B5Spec == B5Init /\ [][B5Next]_vars

----------------------------------------------------------------------------
(* Properties *)

\* the records the program can still reach
Records == {id \in DOMAIN trades : trades[id] # Garbage}

RECURSIVE PartialQuantity(_, _)
PartialQuantity(trade, n) ==
    IF n = 0 THEN 0
    ELSE PartialQuantity(trade, n - 1) + trade.partial_exits[n].quantity

\* C1: at most one live Position per underlying: an entry of active_trades
\* that holds a Position is never replaced by another Position, whatever the
\* CE and PE quotes of a polling pass are.
C1_NeverOverwritesActiveTrade ==
    [][\A i \in Indexes :
          active_trades[i] # NoTrade =>
              active_trades'[i] \in {NoTrade, active_trades[i]}]_vars

\* C2: exit_trade's success path runs at most once for every Position, under
\* every interleaving of its monitor_trade thread with cleanup.
C2_SettledAtMostOnce ==
    \A id \in Records : trades[id].settled <= 1

\* C3: for every settled Position the quantities of its partial exits plus
\* the quantity of the final exit order equal the quantity it was entered with.
C3_QuantityConserved ==
    \A id \in Records :
        trades[id].settled >= 1 =>
            PartialQuantity(trades[id], Len(trades[id].partial_exits))
                + trades[id].exit_quantity = trades[id].entry_quantity

\* C4: every partial exit recorded reduces the quantity by at least 1, and
\* the quantity is never negative.
C4_QuantityStrictlyDecreasing ==
    [][\A id \in Records :
          /\ trades'[id].quantity >= 0
          /\ Len(trades'[id].partial_exits) > Len(trades[id].partial_exits)
                => trades'[id].quantity < trades[id].quantity]_vars

\* C5: the stop_loss of a Position never loosens: it never decreases for a
\* LONG Position and never increases for a SHORT one.
C5_StopNeverLoosens ==
    [][\A id \in Records :
          trades'[id] # Garbage =>
              IF trades[id].direction = "LONG"
              THEN trades'[id].stop_loss >= trades[id].stop_loss
              ELSE trades'[id].stop_loss <= trades[id].stop_loss]_vars

\* C6: a rung of the ladder is recorded at most once in the partial_exits of
\* a Position.
C6_RungFiresAtMostOnce ==
    \A id \in Records : \A k \in 1..Len(config.exits) :
        Cardinality({n \in 1..Len(trades[id].partial_exits) :
            trades[id].partial_exits[n].time_minutes = config.exits[k].time_minutes}) <= 1

ExitPcs == {"et_resp", "et_store", "et_del", "et_ret"}

\* the partial exits, the quantity and the stop of every record are left alone
LadderAndStopUnchanged ==
    \A id \in Records :
        \/ trades'[id] = Garbage
        \/ /\ trades'[id].partial_exits = trades[id].partial_exits
           /\ trades'[id].quantity = trades[id].quantity
           /\ trades'[id].stop_loss = trades[id].stop_loss

\* C7: on a tick of monitor_trade whose price satisfies an exit condition the
\* thread goes straight to the terminal exit and stays in it until it ends:
\* no partial exit is executed and the trailing stop is not adjusted.
C7_TerminalExitOnly ==
    [][\A t \in Monitors :
          /\ (/\ th[t].pc = "mt_tick"
              /\ th'[t].pc # "mt_tick"
              /\ th'[t].price # None
              /\ check_exit_conditions(trades[th[t].trade], th'[t].price, now) # "")
                 => th'[t].pc = "et_resp" /\ LadderAndStopUnchanged
          /\ (th[t].pc \in ExitPcs /\ th'[t] # th[t])
                 => th'[t].pc \in ExitPcs \cup {"done"} /\ LadderAndStopUnchanged]_vars

\* a TIME_EXIT has settled a Position on a tick on which a rung of the ladder
\* was eligible
C7_Witness ==
    \E t \in Monitors :
        /\ th[t].pc = "et_store"
        /\ th[t].reason = "TIME_EXIT"
        /\ trades[th[t].etrade].exit_reason = "TIME_EXIT"
        /\ \E k \in 1..Len(config.exits) :
              /\ config.partial_exits_enabled
              /\ RungFires(trades[th[t].etrade], k,
                           now - trades[th[t].etrade].entry_time, th[t].price)

\* C9: the step in which an exit order is rejected changes neither
\* active_trades nor daily_pnl nor the Position; the step in which a partial
\* exit order is rejected leaves the Position as it was, its rung as eligible as
\* it was before.
C9_FailedOrderChangesNothing ==
    [][\A t \in Threads :
          /\ (th[t].pc = "et_resp" /\ th'[t].pc \notin {"et_resp", "et_store"})
                => /\ active_trades' = active_trades
                   /\ daily_pnl' = daily_pnl
                   /\ \/ trades'[th[t].etrade] = trades[th[t].etrade]
                      \/ /\ active_trades[th[t].index] # th[t].etrade
                         /\ trades'[th[t].etrade] = Garbage
          /\ (th[t].pc = "pe_resp" /\ th'[t].pc = "pe_next" /\ ~th'[t].ok)
                => /\ trades'[th[t].trade] = trades[th[t].trade]
                   /\ AlreadyExecuted(trades'[th[t].trade], th[t].rung)
                          = AlreadyExecuted(trades[th[t].trade], th[t].rung)]_vars

\* one thread has had its exit order rejected and its Position is still in
\* active_trades with no exit recorded, while the partial exit order of
\* another thread has just been rejected
C9_Witness ==
    \E t, u \in Monitors :
        /\ th[t].pc = "done" /\ ~th[t].ok
        /\ active_trades[th[t].index] # NoTrade
        /\ trades[active_trades[th[t].index]].exit_reason = ""
        /\ th[u].pc = "pe_next" /\ ~th[u].ok
        /\ Len(trades[th[u].trade].partial_exits) = 0

\* C8: a monitor_trade thread whose exit order is rejected goes back to its
\* monitoring loop, so that the exit is attempted again on a later tick.
C8_RejectedExitIsRetried ==
    [][\A t \in Monitors :
          (th[t].pc = "et_resp" /\ th'[t].pc \notin {"et_resp", "et_store"})
              => th'[t].pc = "mt_loop"]_vars

\* C10: every tick of monitor_trade that ends once the maximum holding period
\* has elapsed attempts the exit, whatever the quote feed answers.
C10_HoldingPeriodIsCeiling ==
    [][\A t \in Monitors :
          (/\ th[t].pc = "mt_tick"
           /\ th'[t].pc # "mt_tick"
           /\ now - trades[th[t].trade].entry_time >= config.max_holding_period_minutes)
              => th'[t].pc \in {"et_resp", "done"}]_vars

\* the positions of the main thread inside monitor_breakouts
MonitorBreakoutsPcs == {"mb_top", "mb_ce", "mb_pe", "enter_CE", "enter_PE"}

\* C11: monitor_breakouts ends of its own accord: a run in which no trade
\* is entered eventually leaves monitor_breakouts, with no KeyboardInterrupt
\* promised.
C11_MonitoringTerminates ==
    <>(daily_trades_count > 0 \/ th[Main].pc \notin {"run", "capture"} \cup MonitorBreakoutsPcs)

\* C12: when cleanup has returned, active_trades is empty: every Position
\* that was open has been settled and removed, whatever the quotes and the
\* orders of cleanup answered.
C12_CleanupSettlesEverything ==
    th[Main].pc = "done" => \A i \in Indexes : active_trades[i] = NoTrade

\* C13: whenever no thread is between the load and the store of
\* `self.daily_pnl += pnl`, daily_pnl is the sum of the pnl of the settled
\* trades.
C13_DailyPnlIsSumOfSettled ==
    (\A t \in Threads : th[t].pc # "et_store") => daily_pnl = realized_pnl

\* C14: a Position is opened only while daily_trades_count is below
\* max_daily_trades and daily_pnl is above max_daily_loss.
C14_GateDeniesAtLimits ==
    [][daily_trades_count' > daily_trades_count =>
          /\ daily_trades_count < config.max_daily_trades
          /\ daily_pnl > config.max_daily_loss]_vars

\* the premium of the price last fetched over the level it was compared with,
\* in percent, exceeds the maximum
B5PremiumExceeds ==
    /\ b5'.ltp # None
    /\ b5'.ltp > B5Level
    /\ (b5'.ltp - B5Level) * 100 > b5.max_premium_pct * B5Level

\* C15: an iteration that fetches a price whose premium over the trigger
\* exceeds max_premium_pct does not enter and monitoring goes on; an
\* iteration enters only at a price above the trigger with a premium of at
\* most max_premium_pct; and the function ends without an entry only once
\* the monitoring window has expired.
C15_NoEntryAbovePremium ==
    [][/\ (b5.pc = "poll" /\ b5' # b5 /\ b5'.elapsed = b5.elapsed /\ B5PremiumExceeds)
            => /\ b5'.pc \in {"poll", "while"}
               /\ b5'.entry_symbol = ""
               /\ ~b5'.breakout_taken
       /\ (b5.entry_symbol = "" /\ b5'.entry_symbol # "")
            => /\ b5.pc = "poll"
               /\ b5'.entry_price = b5'.ltp
               /\ b5'.ltp # None /\ b5'.ltp > B5Level
               /\ ~B5PremiumExceeds
       /\ (b5.pc # "done" /\ b5'.pc = "done" /\ b5'.entry_symbol = "")
            => b5.elapsed >= max_monitor_time]_vars

\* the entry was made after a breach had been passed over as too expensive
C15_Witness ==
    /\ b5.breakout_taken
    /\ b5.skipped
    /\ b5.entry_price > 0

\* the sum over the fills of a settled trade, its recorded partial exits and
\* its final exit order, of (fill price - entry price) x fill quantity
FillsPnl(trade) ==
    PartialPnl(trade, Len(trade.partial_exits))
        + (IF trade.direction = "LONG" THEN trade.exit_price - trade.entry_price
                                       ELSE trade.entry_price - trade.exit_price)
              * trade.exit_quantity

\* C16: the pnl exit_trade stores in a trade is the sum over its fills, the
\* recorded partial exits and the final exit, of (fill price - entry price)
\* x fill quantity.
C16_PnlIsSumOfFills ==
    \A id \in Records :
        trades[id].settled >= 1 => trades[id].pnl = FillsPnl(trades[id])

\* C17: a tick of monitor_trade that gets no usable quote changes nothing:
\* the Position stays in active_trades, its record, daily_pnl and the
\* thread's binding are as before, and the thread is back at the head of its
\* loop; a tick acts (exit, partial exit, trailing stop) only on a quote that
\* is a price.
C17_FailedPollChangesNothing ==
    [][\A t \in Monitors :
          (th[t].pc = "mt_tick" /\ th'[t].pc # "mt_tick") =>
              /\ th'[t].failed =>
                    /\ th'[t].pc = "mt_loop"
                    /\ th'[t].trade = th[t].trade
                    /\ active_trades' = active_trades
                    /\ daily_pnl' = daily_pnl
                    /\ trades'[th[t].trade] = trades[th[t].trade]
              /\ th'[t].pc \in {"et_resp", "pe_resp", "ts_store"} =>
                    th'[t].price \notin {None, Malformed}]_vars

\* a thread is asleep after a tick without a quote, its Position past the
\* maximum holding period and still open, nothing settled
C17_Witness ==
    \E t \in Monitors :
        /\ th[t].pc = "mt_loop" /\ th[t].failed
        /\ active_trades[th[t].index] = th[t].trade
        /\ trades[th[t].trade].exit_reason = ""
        /\ now - trades[th[t].trade].entry_time >= config.max_holding_period_minutes

\* C18: an index whose history is empty or whose CE or PE quote is missing
\* gets no BreakoutLevel; an index without a BreakoutLevel never has a
\* Position, and no thread ever works on it; and capture_first_candle goes on
\* to monitor_breakouts whenever it ends normally, whichever indexes failed.
C18_FailedIndexIsLeftOut ==
    /\ [](/\ \A df_empty \in BOOLEAN, ce \in ClosePrices, pe \in ClosePrices :
                (df_empty \/ ce = None \/ pe = None)
                    => CapturedLevel(df_empty, ce, pe) = NoLevel
          /\ \A i \in Indexes :
                breakout_levels[i] = NoLevel =>
                    /\ active_trades[i] = NoTrade
                    /\ \A t \in Threads : th[t].index # i)
    /\ [][(th[Main].pc = "capture" /\ first_candle_captured')
              => /\ th'[Main].pc = "mb_top"
                 /\ trading_active'
                 /\ \A i \in Indexes :
                       \/ breakout_levels'[i] = NoLevel
                       \/ /\ breakout_levels'[i].ce_breakout_level # None
                          /\ breakout_levels'[i].pe_breakout_level # None]_vars

\* one underlying has no BreakoutLevel and no Position while another one has
\* been entered
C18_Witness ==
    \E i, j \in Indexes :
        /\ first_candle_captured
        /\ breakout_levels[i] = NoLevel
        /\ active_trades[i] = NoTrade
        /\ breakout_levels[j] # NoLevel
        /\ active_trades[j] # NoTrade

----------------------------------------------------------------------------
(* check_volume_confirmation and check_momentum_confirmation, as           *)
(* validate_entry_conditions calls them                                    *)

\* the longest history a fetch returns, in bars
MaxBars == 2

\* the largest number of periods a filter is configured with
MaxPeriods == 3

\* the bars of a history
Bars == {[volume |-> 10, close |-> 100], [volume |-> 20, close |-> 104],
         [volume |-> 20, close |-> 100]}

\* what get_historical_data returns: <<>> is the empty DataFrame of a fetch
\* that failed
Histories == UNION {[1..n -> Bars] : n \in 0..MaxBars}

\* df[column].tail(periods), for periods <= len(df)
Tail_(df, periods) == SubSeq(df, Len(df) - periods + 1, Len(df))

RECURSIVE SumVolume(_)
SumVolume(df) == IF df = <<>> THEN 0 ELSE df[1].volume + SumVolume(Tail(df))

\* check_volume_confirmation with the insufficient-data test answering False
check_volume_confirmationFailClosed(entry_filters, df, raised) ==
    IF ~entry_filters.volume_confirmation THEN TRUE
    ELSE IF raised THEN TRUE
    ELSE IF Len(df) < entry_filters.volume_periods THEN FALSE
    ELSE df[Len(df)].volume * entry_filters.volume_periods * 100
             >= SumVolume(Tail_(df, entry_filters.volume_periods))
                    * entry_filters.volume_threshold

\* check_volume_confirmation: current_volume >= avg_volume * threshold, with
\* avg_volume the mean of the last volume_periods bars; `raised` is an
\* exception inside the try block
check_volume_confirmation(entry_filters, df, raised) ==
    IF ~entry_filters.volume_confirmation THEN TRUE
    ELSE IF raised THEN TRUE
    ELSE IF Len(df) < entry_filters.volume_periods THEN TRUE
    ELSE df[Len(df)].volume * entry_filters.volume_periods * 100
             >= SumVolume(Tail_(df, entry_filters.volume_periods))
                    * entry_filters.volume_threshold

\* check_momentum_confirmation: the last of the recent closes is above the
\* first of them
check_momentum_confirmation(entry_filters, df, raised) ==
    IF ~entry_filters.momentum_confirmation THEN TRUE
    ELSE IF raised THEN TRUE
    ELSE IF Len(df) < entry_filters.momentum_periods THEN TRUE
    ELSE LET recent_closes == Tail_(df, entry_filters.momentum_periods)
         IN  recent_closes[Len(recent_closes)].close > recent_closes[1].close

\* validate_entry_conditions is called on the first breach of the day, with
\* some entry_filters section in force
EFInit ==
    /\ session = 1
    /\ trading_active = TRUE
    /\ first_candle_captured = TRUE
    /\ breakout_levels = [i \in Indexes |-> NoLevel]
    /\ active_trades = [i \in Indexes |-> NoTrade]
    /\ trades = <<>>
    /\ daily_pnl = 0
    /\ realized_pnl = 0
    /\ daily_trades_count = 0
    /\ now = 0
    /\ th = [t \in Threads |-> Idle]
    /\ mb_i = 1
    /\ cl_keys = <<>>
    /\ b5 = B5Idle
    /\ gh = GHIdle
    /\ \E vc \in BOOLEAN, vp \in 1..MaxPeriods, mc \in BOOLEAN, mp \in 1..MaxPeriods :
          ef = [EFIdle EXCEPT !.pc = "volume",
                              !.entry_filters = EntryFilters(vc, vp, mc, mp)]

\* volume_ok = self.check_volume_confirmation(symbol)
EF_Volume ==
    /\ ef.pc = "volume"
    /\ \E df \in Histories, raised \in BOOLEAN :
          ef' = [ef EXCEPT !.pc = "momentum", !.volume_df = df,
                           !.volume_raised = raised,
                           !.volume_ok =
                               check_volume_confirmation(ef.entry_filters, df, raised)]
    /\ UNCHANGED <<strategy_vars, b5, gh>>

\* momentum_ok = self.check_momentum_confirmation(symbol), and the return
EF_Momentum ==
    /\ ef.pc = "momentum"
    /\ \E df \in Histories, raised \in BOOLEAN :
          LET momentum_ok == check_momentum_confirmation(ef.entry_filters, df, raised)
          IN  ef' = [ef EXCEPT !.pc = "done", !.momentum_df = df,
                               !.momentum_raised = raised,
                               !.momentum_ok = momentum_ok,
                               !.result = validate_entry_conditions(ef.volume_ok,
                                                                    momentum_ok)]
    /\ UNCHANGED <<strategy_vars, b5, gh>>

EFNext == EF_Volume \/ EF_Momentum

EFSpec == EFInit /\ [][EFNext]_vars

----------------------------------------------------------------------------
(* get_historical_data *)

\* the largest data.max_retries of a configuration
MaxRetries == 3

\* what one call of self.fyers.history does: an answer with candles (none, or
\* one bar), an answer that is not 'ok', or an exception
Responses ==
    {[s |-> "ok", candles |-> <<>>],
     [s |-> "ok", candles |-> <<[volume |-> 10, close |-> 100]>>],
     [s |-> "error", candles |-> <<>>],
     [s |-> "exception", candles |-> <<>>]}

\* the call starts with some max_retries; the answers the attempts would get,
\* in order
GHInit ==
    /\ session = 1
    /\ trading_active = TRUE
    /\ first_candle_captured = FALSE
    /\ breakout_levels = [i \in Indexes |-> NoLevel]
    /\ active_trades = [i \in Indexes |-> NoTrade]
    /\ trades = <<>>
    /\ daily_pnl = 0
    /\ realized_pnl = 0
    /\ daily_trades_count = 0
    /\ now = 0
    /\ th = [t \in Threads |-> Idle]
    /\ mb_i = 1
    /\ cl_keys = <<>>
    /\ b5 = B5Idle
    /\ ef = EFIdle
    /\ \E max_retries \in 0..MaxRetries, responses \in [1..MaxRetries -> Responses] :
          gh = [GHIdle EXCEPT !.pc = "for", !.max_retries = max_retries,
                              !.responses = responses]

\* AfterAttempt with the loop going on after an attempt that succeeded
AfterAttemptKeepsTrying(response) ==
    IF response.s = "ok"
    THEN [gh EXCEPT !.attempt = @ + 1, !.result = response.candles]
    ELSE [gh EXCEPT !.attempt = @ + 1]

\* the body of `for attempt in range(max_retries)`: the DataFrame of the
\* candles is returned, or the failure is logged (and, after an exception,
\* slept on) and the loop goes on
AfterAttempt(response) ==
    IF response.s = "ok"
    THEN [gh EXCEPT !.pc = "done", !.attempt = @ + 1, !.result = response.candles]
    ELSE [gh EXCEPT !.attempt = @ + 1]

GH_Attempt ==
    /\ gh.pc = "for"
    /\ gh.attempt < gh.max_retries
    /\ gh' = AfterAttempt(gh.responses[gh.attempt + 1])
    /\ UNCHANGED <<strategy_vars, b5, ef>>

\* the loop is exhausted: `return pd.DataFrame()`
GH_Exhausted ==
    /\ gh.pc = "for"
    /\ gh.attempt >= gh.max_retries
    /\ gh' = [gh EXCEPT !.pc = "done", !.result = <<>>]
    /\ UNCHANGED <<strategy_vars, b5, ef>>

GHNext == GH_Attempt \/ GH_Exhausted

\* the call is not suspended for ever: history requests and sleeps return
GHSpec == GHInit /\ [][GHNext]_vars /\ WF_vars(GHNext)

\* C19: a configuration that lacks stop_loss_points or target_points, or holds
\* a placeholder in one of them, never reaches the trading-active state and
\* never opens a position
C19_InvalidConfigNeverTrades ==
    ~validate_config(config) =>
        /\ ~trading_active
        /\ \A i \in Indexes : active_trades[i] = NoTrade

\* the cases in which a filter has nothing to judge: it is disabled, the
\* history is shorter than its periods, or the check raised
NothingToJudge(enabled, periods, df, raised) ==
    ~enabled \/ Len(df) < periods \/ raised

VolumeNothingToJudge ==
    NothingToJudge(ef.entry_filters.volume_confirmation,
                   ef.entry_filters.volume_periods, ef.volume_df, ef.volume_raised)

MomentumNothingToJudge ==
    NothingToJudge(ef.entry_filters.momentum_confirmation,
                   ef.entry_filters.momentum_periods, ef.momentum_df,
                   ef.momentum_raised)

ScenarioPosition(trade) ==
    /\ Sessions[session] = TrailingScenarioSession
    /\ trade.direction = "LONG"
    /\ trade.entry_price = 200
    /\ trade.target = 220

\* C21: update_trailing_stop changes the stop only when the profit is at
\* least the activation fraction of target - entry, and then to
\* current_price - profit * trailing fraction; in the scenario a tick at 107
\* moves the stop from 90 to 103.5, and with the stop at 103.5 a tick at 103
\* closes the open Position with reason STOP_LOSS.
C21_TrailingStopScenario ==
    [][\A t \in Monitors :
          /\ (th[t].pc = "ts_store" /\ th'[t].pc # "ts_store") =>
                LET trade  == trades[th[t].trade]
                    after  == trades'[th[t].trade]
                    price  == th[t].price
                    profit == price - trade.entry_price
                IN /\ after.stop_loss # trade.stop_loss =>
                          /\ profit * 100 >= config.activation_percentage
                                                 * (trade.target - trade.entry_price)
                          /\ (price - after.stop_loss) * 100
                                 = profit * config.trailing_percentage
                   /\ (ScenarioPosition(trade) /\ trade.stop_loss = 180 /\ price = 214)
                          => after.stop_loss = 207
          /\ (/\ th[t].pc = "mt_tick" /\ th'[t].pc # "mt_tick"
              /\ ScenarioPosition(trades[th[t].trade])
              /\ trades[th[t].trade].stop_loss = 207
              /\ active_trades[th[t].index] = th[t].trade) =>
                \/ th'[t].failed
                \/ th'[t].price = 214
                \/ /\ th'[t].pc = "et_resp"
                   /\ th'[t].price = 206
                   /\ th'[t].reason = "STOP_LOSS"]_vars

\* the scenario's Position, its stop trailed to 103.5, is being closed at 103
\* with reason STOP_LOSS
C21_Witness ==
    \E t \in Monitors :
        /\ th[t].pc = "et_resp"
        /\ th[t].etrade # NoTrade
        /\ ScenarioPosition(trades[th[t].etrade])
        /\ trades[th[t].etrade].stop_loss = 207
        /\ th[t].price = 206
        /\ th[t].reason = "STOP_LOSS"

\* thread t gets the answer of the order of a rung, and it is accepted
PartialExitRecorded(t) ==
    th[t].pc = "pe_resp" /\ th'[t].pc = "pe_next" /\ th'[t].ok

\* C22: a rung that is recorded was not yet fired, its time threshold has
\* passed and its minimum profit is met; its percentage of the remaining
\* quantity is closed at the current price, the quantity is reduced by that
\* amount and the rung is marked fired. For the rung {15 min, 5%, 50%} and an
\* entry at 100, a price of 106 from minute 15 on closes half of the quantity
\* once, and no tick after that closes anything more.
C22_PartialExitScenario ==
    [][\A t \in Monitors :
          /\ PartialExitRecorded(t) =>
                LET trade  == trades[th[t].trade]
                    after  == trades'[th[t].trade]
                    rung   == config.exits[th[t].rung]
                    closed == after.partial_exits[Len(after.partial_exits)]
                IN /\ \A n \in 1..Len(trade.partial_exits) :
                          trade.partial_exits[n].time_minutes # rung.time_minutes
                   /\ th[t].elapsed >= rung.time_minutes
                   /\ (th[t].price - trade.entry_price) * 100
                          >= rung.min_profit_percentage * trade.entry_price
                   /\ Len(after.partial_exits) = Len(trade.partial_exits) + 1
                   /\ closed.time_minutes = rung.time_minutes
                   /\ closed.exit_price = th[t].price
                   /\ closed.quantity = (trade.quantity * rung.exit_percentage) \div 100
                   /\ after.quantity = trade.quantity - closed.quantity
          /\ (/\ Sessions[session] = PartialScenarioSession
              /\ th[t].pc = "mt_tick" /\ th'[t].pc # "mt_tick"
              /\ trades[th[t].trade].entry_price = 100) =>
                LET trade == trades[th[t].trade] IN
                IF /\ trade.partial_exits = <<>>
                   /\ ~th'[t].failed
                   /\ now - trade.entry_time \in 15..20
                THEN /\ th'[t].pc = "pe_resp"
                     /\ th'[t].price = 106
                     /\ th'[t].qty * 2 = trade.quantity
                ELSE th'[t].pc # "pe_resp"]_vars

\* C23: the reason monitor_trade hands to exit_trade is STOP_LOSS exactly when
\* the price is at or beyond the stop, TARGET exactly when it is not and the
\* price is at or beyond the target, TIME_EXIT exactly when neither holds and
\* the holding period is over, whatever else holds on that tick.
C23_ReasonOrder ==
    [][\A t \in Monitors :
          (th[t].pc = "mt_tick" /\ th'[t].pc = "et_resp") =>
             LET trade  == trades[th[t].trade]
                 price  == th'[t].price
                 stop   == IF trade.direction = "LONG" THEN price <= trade.stop_loss
                                                       ELSE price >= trade.stop_loss
                 target == IF trade.direction = "LONG" THEN price >= trade.target
                                                       ELSE price <= trade.target
                 late   == now - trade.entry_time >= config.max_holding_period_minutes
             IN /\ th'[t].reason = "STOP_LOSS" <=> stop
                /\ th'[t].reason = "TARGET" <=> ~stop /\ target
                /\ th'[t].reason = "TIME_EXIT" <=> ~stop /\ ~target /\ late]_vars

\* an exit with reason STOP_LOSS on a tick on which the holding period was
\* over as well
C23_Witness ==
    \E t \in Monitors :
        /\ th[t].pc = "et_resp"
        /\ th[t].reason = "STOP_LOSS"
        /\ th[t].price <= trades[th[t].trade].stop_loss
        /\ config.max_holding_period_minutes = 0

\* C24: in monitor_option_high_breakout a polled price at or above the trigger
\* of its side, the trigger itself included, is a breach: unless the premium
\* over the trigger is above the limit, the trade is executed at that price.
C24_TriggerPriceIsBreach ==
    [][(/\ b5.pc = "poll" /\ b5' # b5
        /\ b5'.ltp # None
        /\ b5'.ltp >= B5Level
        /\ (b5'.ltp - B5Level) * 100 <= b5.max_premium_pct * B5Level)
          => b5'.pc = "execute_trade" /\ b5'.entry_price = b5'.ltp]_vars

\* C25: with momentum confirmation enabled, N = momentum_periods, at least
\* N + 1 bars of history and no error, check_momentum_confirmation passes
\* exactly when the most recent close is greater than the close N periods
\* before it.
C25_MomentumComparesNPeriodsBack ==
    LET N  == ef.entry_filters.momentum_periods
        df == ef.momentum_df
    IN (/\ ef.pc = "done"
        /\ ef.entry_filters.momentum_confirmation
        /\ ~ef.momentum_raised
        /\ Len(df) >= N + 1)
          => (ef.momentum_ok <=> df[Len(df)].close > df[Len(df) - N].close)

\* C26: a side of a BreakoutLevel that has opened a Position for its
\* underlying opens no second one later in the session.
C26_TriggerFiresOnce ==
    [][\A i \in Indexes : \A side \in {"CE", "PE"} :
          (/\ th[Main].pc = EnterPc(side) /\ th[Main].index = i
           /\ daily_trades_count' = daily_trades_count + 1)
             => side \notin breakout_levels[i].entered]_vars

\* rung k has no entry in partial_exits, its time threshold has passed and
\* its minimum profit is met
Eligible(trade, k, time_elapsed, price) ==
    /\ \A n \in 1..Len(trade.partial_exits) :
           trade.partial_exits[n].time_minutes # config.exits[k].time_minutes
    /\ time_elapsed >= config.exits[k].time_minutes
    /\ (price - trade.entry_price) * 100
           >= config.exits[k].min_profit_percentage * trade.entry_price

\* C27: after a rung of a tick has been dealt with, the next rung that is
\* eligible at the price and the elapsed time of that tick has its order
\* placed on the same tick, sized from the quantity that remains by then, and
\* when accepted it is recorded as a partial exit of its own.
C27_AllEligibleRungsFire ==
    [][\A t \in Monitors :
          /\ (th[t].pc = "pe_next" /\ th'[t] # th[t]) =>
                LET trade == trades[th[t].trade]
                    later == {k \in (th[t].rung + 1)..Len(config.exits) :
                                 Eligible(trade, k, th[t].elapsed, th[t].price)}
                IN IF later = {} THEN th'[t].pc # "pe_resp"
                   ELSE /\ th'[t].pc = "pe_resp"
                        /\ th'[t].rung \in later
                        /\ \A j \in later : th'[t].rung <= j
                        /\ th'[t].price = th[t].price
                        /\ th'[t].qty =
                               (trade.quantity * config.exits[th'[t].rung].exit_percentage)
                                   \div 100
          /\ (PartialExitRecorded(t) /\ th[t].fired > 0) =>
                LET trade == trades[th[t].trade]
                    after == trades'[th[t].trade]
                IN /\ Len(after.partial_exits) = Len(trade.partial_exits) + 1
                   /\ after.partial_exits[Len(after.partial_exits)] =
                          [time_minutes |-> config.exits[th[t].rung].time_minutes,
                           exit_price   |-> th[t].price,
                           quantity     |-> th[t].qty]
                   /\ after.quantity = trade.quantity - th[t].qty]_vars

\* two rungs have been recorded on one tick
C27_Witness ==
    \E t \in Monitors :
        /\ th[t].pc = "pe_next"
        /\ th[t].fired = 2
        /\ Len(trades[th[t].trade].partial_exits) = 2

\* the first of the max_retries attempts that is answered 'ok', 0 if none is
FirstOk ==
    LET ok == {i \in 1..gh.max_retries : gh.responses[i].s = "ok"}
    IN IF ok = {} THEN 0 ELSE CHOOSE i \in ok : \A j \in ok : i <= j

\* C28: get_historical_data makes at most max_retries attempts; it returns
\* the bars of the first attempt that succeeds, having made no attempt after
\* it, and the empty result after max_retries failed attempts; it always
\* returns.
C28_BoundedRetries ==
    /\ [](gh.attempt <= gh.max_retries)
    /\ [](gh.pc = "done" =>
             IF FirstOk # 0
             THEN gh.attempt = FirstOk /\ gh.result = gh.responses[FirstOk].candles
             ELSE gh.attempt = gh.max_retries /\ gh.result = <<>>)
    /\ <>(gh.pc = "done")

\* two failed attempts, then the bars of the third
C28_Witness ==
    /\ gh.pc = "done"
    /\ gh.max_retries = 3
    /\ gh.responses[1].s = "error"
    /\ gh.responses[2].s = "exception"
    /\ gh.attempt = 3
    /\ gh.result # <<>>

\* the main thread has entered cleanup
CleanupStarted == th[Main].pc \notin {"run", "capture"} \cup MonitorBreakoutsPcs

\* C29: trading_active is false from the first step of cleanup on, and from
\* the start of cleanup on the main thread never returns to monitor_breakouts
\* or enter_trade: no Position is registered, no entry is counted and no
\* TradeRecord is created.
C29_NoEntryAfterCleanup ==
    /\ [](CleanupStarted /\ th[Main].pc # "cleanup" => ~trading_active)
    /\ [][CleanupStarted =>
             /\ CleanupStarted'
             /\ daily_trades_count' = daily_trades_count
             /\ Len(trades') = Len(trades)
             /\ \A i \in Indexes : active_trades'[i] \in {active_trades[i], NoTrade}]_vars

\* cleanup has run to its end in a session in which levels were captured and
\* no Position was opened
C29_Witness ==
    /\ th[Main].pc = "done"
    /\ ~trading_active
    /\ first_candle_captured
    /\ daily_trades_count = 0
    /\ \E i \in Indexes : breakout_levels[i] # NoLevel

\* C30: when enter_trade's order is not accepted, active_trades and
\* daily_trades_count keep their values, no TradeRecord is created and no
\* monitor_trade thread is started; the main thread stays in
\* monitor_breakouts with trading_active set and the level of the underlying
\* in place, so the underlying is polled again on the following passes.
C30_FailedEntryCreatesNothing ==
    [][\A side \in {"CE", "PE"} :
          (th[Main].pc = EnterPc(side) /\ th'[Main].pc = AfterSide(side)
           /\ ~th'[Main].ok)
             => /\ active_trades' = active_trades
                /\ daily_trades_count' = daily_trades_count
                /\ Len(trades') = Len(trades)
                /\ \A t \in Monitors : th'[t] = th[t]
                /\ trading_active'
                /\ breakout_levels' = breakout_levels
                /\ breakout_levels[th[Main].index] # NoLevel]_vars

\* an entry order was refused while the underlying had no Position: nothing
\* is registered and the main thread is still in monitor_breakouts
C30_Witness ==
    /\ th[Main].pc \in MonitorBreakoutsPcs
    /\ ~th[Main].ok
    /\ ~RiskParameterError
    /\ trading_active
    /\ daily_trades_count = 0
    /\ active_trades[th[Main].index] = NoTrade

\* C31: when log_trade_to_file fails to write the row of a settled Position,
\* the Position is already out of active_trades and carries its exit fields,
\* daily_pnl is left as the settlement stored it, and exit_trade returns to
\* its caller: the monitor thread ends, cleanup goes on with its loop.
C31_FailedLogDoesNotUndo ==
    [][\A t \in Threads :
          /\ (th[t].pc = "et_del" /\ th'[t].pc = "et_ret" /\ ~th'[t].written) =>
                /\ active_trades'[th[t].index] = NoTrade
                /\ daily_pnl' = daily_pnl
                /\ trades'[th[t].etrade].settled > 0
                /\ trades'[th[t].etrade].exit_reason # ""
                /\ trades'[th[t].etrade].pnl = trades[th[t].etrade].pnl
          /\ (th[t].pc = "et_ret" /\ th'[t] # th[t]) =>
                /\ th'[t].pc = IF t = Main THEN "cl_loop" ELSE "done"
                /\ active_trades' = active_trades
                /\ daily_pnl' = daily_pnl]_vars

\* the write of the row of a Position that was closed at a loss has failed; the
\* Position is out of active_trades and daily_pnl holds its loss
C31_Witness ==
    \E t \in Monitors :
        /\ th[t].pc = "et_ret"
        /\ ~th[t].written
        /\ active_trades[th[t].index] = NoTrade
        /\ trades[th[t].etrade].pnl < 0
        /\ daily_pnl = trades[th[t].etrade].pnl

\* C32: no step changes the target or the entry price of a TradeRecord that
\* the program can still reach.
C32_TargetAndEntryFixed ==
    [][\A id \in Records :
          \/ trades'[id] = Garbage
          \/ /\ trades'[id].target = trades[id].target
             /\ trades'[id].entry_price = trades[id].entry_price]_vars

\* a Position whose stop was trailed and which has a partial exit recorded
\* still has the target it was entered with
C32_Witness ==
    \E id \in Records :
        /\ trades[id] # Garbage
        /\ trades[id].stop_loss > trades[id].entry_price - config.stop_loss_points
        /\ Len(trades[id].partial_exits) > 0
        /\ trades[id].target = trades[id].entry_price + config.target_points

\* C33: once a Position is settled (its exit_reason is set), no partial exit
\* is recorded on it and neither its quantity nor its stop changes.
C33_NothingAfterSettlement ==
    [][\A id \in Records :
          trades[id].exit_reason # "" =>
             \/ trades'[id] = Garbage
             \/ /\ trades'[id].partial_exits = trades[id].partial_exits
                /\ trades'[id].quantity = trades[id].quantity
                /\ trades'[id].stop_loss = trades[id].stop_loss]_vars

\* C34: every Position enter_trade opens has its stop below its entry price
\* and its entry price below its target.
C34_StopBelowEntryBelowTarget ==
    [][Len(trades') > Len(trades) =>
          LET trade == trades'[Len(trades')]
          IN  /\ trade.stop_loss < trade.entry_price
              /\ trade.entry_price < trade.target]_vars

\* C35: daily_trades_count never decreases, grows by exactly one with each
\* Position opened and by nothing else, never exceeds max_daily_trades, and
\* at the ceiling no Position is opened.
C35_TradeCountCeiling ==
    /\ [](daily_trades_count <= config.max_daily_trades)
    /\ [][/\ daily_trades_count' - daily_trades_count =
                Len(trades') - Len(trades)
           /\ Len(trades') - Len(trades) \in {0, 1}
           /\ daily_trades_count = config.max_daily_trades =>
                 Len(trades') = Len(trades)]_vars

\* two Positions were opened, the PE one last, which reached the ceiling, and
\* monitor_breakouts has polled the CE side again since
C35_Witness ==
    /\ config.max_daily_trades = 2
    /\ daily_trades_count = 2
    /\ Len(trades) = 2
    /\ trades[2].symbol = "PE"
    /\ th[Main].pc = "mb_pe"

\* C36: while execute_trade holds the position, at the loop test, trailing_sl
\* is the initial stop 0.90 x entry_price, and a STOPLOSS exit is at a price
\* of at most 0.90 x entry_price.
C36_StopNeverTrails ==
    /\ b5.pc = "xt_while" => b5.trailing_sl = 9 * b5.entry_price
    /\ b5.exit_reason = "STOPLOSS" => 10 * b5.exit_price <= 9 * b5.entry_price

\* a STOPLOSS exit after a tick that left the position open
C36_Witness ==
    /\ b5.exit_reason = "STOPLOSS"
    /\ b5.priced
    /\ b5.held > 0

\* execute_trade has ended, by a return or by an exception
XTEnded == b5.pc = "done" /\ b5.entry_symbol # ""

\* C37: when execute_trade has ended, the log holds the ENTRY row and one
\* exit row after it, with reason STOPLOSS, TARGET or MAX_HOLDING; when no
\* price was fetched in the loop the reason is MAX_HOLDING, and the holding
\* time has passed.
C37_OneExitRow ==
    XTEnded =>
       /\ Len(b5.rows) = 2
       /\ b5.rows[1] = "ENTRY"
       /\ b5.rows[2] \in {"STOPLOSS", "TARGET", "MAX_HOLDING"}
       /\ ~b5.priced =>
             /\ b5.rows[2] = "MAX_HOLDING"
             /\ b5.held >= b5.max_holding_minutes * 60

\* C37 for the calls of execute_trade in which log_trade raises nothing
C37_OneExitRowUnlessRaised ==
    (XTEnded /\ b5.breakout_taken) => C37_OneExitRow

\* C38: once a position has been entered, the entry is never replaced and
\* monitor_option_high_breakout polls no price again; a pass on which the CE
\* price breaches with acceptable premium enters the CE side.
C38_AtMostOneEntry ==
    [][/\ b5.entry_symbol # "" =>
             /\ b5'.entry_symbol = b5.entry_symbol
             /\ b5'.entry_price = b5.entry_price
             /\ b5'.pc \notin {"while", "poll"}
       /\ (/\ b5.pc = "poll" /\ b5.opt = 1 /\ b5'.opt = b5.opt
           /\ b5'.pc = "execute_trade")
             => b5'.entry_symbol = "CE"]_vars

\* the CE side was entered on a pass, the PE trigger being the same as the CE
\* one, and execute_trade has returned with its two rows logged
C38_Witness ==
    /\ b5.breakout_taken
    /\ b5.entry_symbol = "CE"
    /\ b5.ce_breakout = b5.pe_breakout
    /\ b5.pc = "done"
    /\ Len(b5.rows) = 2

====
